---- MODULE Spec2Model ----
(***************************************************************************)
(* Model of the three rate-limit testers of the repository:                *)
(*   rapid_hitter.py       fire-and-forget requests at a 60 ms tick,       *)
(*                         pairs handled one after another                 *)
(*   ccxt_rapid_hitter.py  blocking requests at a 60 ms interval, one      *)
(*                         coroutine per pair, gathered                    *)
(*   single_pair_test.py   blocking requests of one pair with an adaptive  *)
(*                         delay                                           *)
(* A step of the model is the code a coroutine runs between two awaits     *)
(* (asyncio never interleaves anything else into it).  Delays are exact    *)
(* rationals in milliseconds.  The wall-clock readings a result carries     *)
(* (time, timestamp, requested_at, finished_at) are reported only and      *)
(* decide nothing in the testers: results are modelled without them.  A    *)
(* finished task of rapid_hitter keeps the rank of its completion among    *)
(* the completions of its pair (its finished_at reading).                  *)
(*                                                                         *)
(* Three specifications:                                                   *)
(*   Spec / FairSpec  the runs of the three testers                        *)
(*   ClassifySpec     rapid_hitter on one pair, every HTTP status paired   *)
(*                    with every body                                      *)
(*   BuildSpec        one channel with a clock: the params, the signature  *)
(*                    and the timestamp of each request as it is built     *)
(***************************************************************************)
EXTENDS Integers, Sequences, FiniteSets, TLC

\* ---------------------------------------------------------------- bounds
MaxPairs == 2
MaxRequests == 2
MaxNumRequests == 4

\* ------------------------------------------------------- program constants
\* asyncio.sleep(0.060) of the two fixed-cadence testers, in ms
FixedIntervalMs == 60
\* min(backoff * 2, 5.0): the ceiling of the adaptive delay, in ms
CeilingMs == 5000

RAPID == "rapid_hitter"
CCXT == "ccxt_rapid_hitter"
SINGLE == "single_pair_test"
Variants == {RAPID, CCXT, SINGLE}

PairNames == {"btc_idr", "eth_idr"}

\* initial_delay values tried for run_test, in ms (0.060 s is the default)
InitialDelays == {0, 60, 2500, 6000}

\* ---------------------------------------------------------------- rationals
RECURSIVE GCD(_, _)
GCD(a, b) == IF b = 0 THEN a ELSE GCD(b, a % b)

Rat(n, d) == LET g == GCD(n, d) IN
             IF g = 0 THEN [n |-> 0, d |-> 1] ELSE [n |-> n \div g, d |-> d \div g]
Ms(k) == Rat(k, 1)
RatLE(a, b) == a.n * b.d <= b.n * a.d
RatLT(a, b) == a.n * b.d < b.n * a.d
RatMin(a, b) == IF RatLE(b, a) THEN b ELSE a
RatMax(a, b) == IF RatLE(a, b) THEN b ELSE a
\* backoff * 2
Times2(a) == Rat(2 * a.n, a.d)
\* backoff / 1.5
DivideBy1p5(a) == Rat(2 * a.n, 3 * a.d)

\* ---------------------------------------------------------------- strings
\* Strings the code inspects character by character are sequences of
\* one-character strings.
UpperChars == <<"A", "C", "D", "E", "G", "I", "N", "O", "R", "S", "T", "Y">>
LowerChars == <<"a", "c", "d", "e", "g", "i", "n", "o", "r", "s", "t", "y">>
LowerChar(ch) == IF \E k \in 1..Len(UpperChars) : UpperChars[k] = ch
                 THEN LowerChars[CHOOSE k \in 1..Len(UpperChars) : UpperChars[k] = ch]
                 ELSE ch
\* str.lower()
Lower(s) == [k \in 1..Len(s) |-> LowerChar(s[k])]
\* needle in hay
Contains(hay, needle) ==
    \E off \in 0..(Len(hay) - Len(needle)) :
        \A k \in 1..Len(needle) : hay[off + k] = needle[k]

\* 'try again in 5 seconds'
RateLimitMarker ==
    <<"t","r","y"," ","a","g","a","i","n"," ","i","n"," ","5"," ",
      "s","e","c","o","n","d","s">>
\* 'too_many_requests_from_your_ip'
TooManyCode == "too_many_requests_from_your_ip"

\* ------------------------------------------------- responses of the remote
\* Decoded JSON bodies, by name.  A body is a dict with optional keys
\* 'error' and 'error_code'.
\*   success       {'success': 1, 'return': {...}}
\*   too_many      {'success': 0, 'error': 'Too many requests, Try Again In 5
\*                  Seconds', 'error_code': 'too_many_requests_from_your_ip'}
\*   invalid_pair  {'success': 0, 'error': 'Invalid pair',
\*                  'error_code': 'invalid_pair'}
\*   shouting      {'error': 'TRY AGAIN IN 5 SECONDS',
\*                  'error_code': 'too_many_requests_from_your_ip'}
\*   near_miss     {'error': 'Try again in 5 second'}
\*   empty_error   {'error': ''}
BodyNames == {"success", "too_many", "invalid_pair", "shouting", "near_miss",
              "empty_error"}
HasKey(b, key) ==
    \/ b \in {"too_many", "invalid_pair", "shouting"} /\ key \in {"error", "error_code"}
    \/ b \in {"near_miss", "empty_error"} /\ key = "error"
BodyError(b) ==
    IF b = "too_many"
    THEN <<"T","o","o"," ","m","a","n","y"," ","r","e","q","u","e","s","t","s",","," ",
           "T","r","y"," ","A","g","a","i","n"," ","I","n"," ","5"," ",
           "S","e","c","o","n","d","s">>
    ELSE IF b = "invalid_pair"
    THEN <<"I","n","v","a","l","i","d"," ","p","a","i","r">>
    ELSE IF b = "shouting"
    THEN <<"T","R","Y"," ","A","G","A","I","N"," ","I","N"," ","5"," ",
           "S","E","C","O","N","D","S">>
    ELSE IF b = "near_miss"
    THEN <<"T","r","y"," ","a","g","a","i","n"," ","i","n"," ","5"," ",
           "s","e","c","o","n","d">>
    ELSE <<>>
BodyErrorCode(b) ==
    IF b \in {"too_many", "shouting"} THEN TooManyCode
    ELSE IF b = "invalid_pair" THEN "invalid_pair" ELSE ""

\* What one session.post(...) / response.json() can do.
HttpOutcomes ==
    { [kind |-> "transport", status |-> "", body |-> ""],
      [kind |-> "undecodable", status |-> "200", body |-> ""],
      [kind |-> "response", status |-> "200", body |-> "success"],
      [kind |-> "response", status |-> "200", body |-> "too_many"],
      [kind |-> "response", status |-> "400", body |-> "invalid_pair"] }
\* The same with every HTTP status paired with every body, for the
\* classification of a response.
HttpStatuses == {"200", "400", "429"}
ClassifyOutcomes ==
    { [kind |-> "transport", status |-> "", body |-> ""] }
    \cup { [kind |-> "undecodable", status |-> st, body |-> ""] : st \in {"200", "429"} }
    \cup { [kind |-> "response", status |-> st, body |-> b] :
              st \in HttpStatuses, b \in BodyNames }
\* What one exchange.create_order(...) can do.
CcxtOutcomes == {"returned", "NetworkError", "ExchangeError", "Exception"}

\* ---------------------------------------------------------------- state
VARIABLES
    variant,              \* which tester runs
    pairs,                \* the list of pairs (one pair for run_test)
    requests_per_pair,    \* requests_per_pair / num_requests
    initial_delay,        \* run_test's initial_delay
    rpc,                  \* position of run_rate_limit_test / run_test
    cur,                  \* rapid_hitter: index of the pair being run
    all_results,          \* rapid_hitter: all_results
    ret,                  \* what the caller of the run receives
    pc,                   \* per channel: position of run_pair_requests
    i,                    \* per channel: the loop variable i
    results,              \* per channel: results
    tasks,                \* per channel: rapid_hitter's tasks
    call,                 \* per channel: the awaited send_trade_request
    backoff,              \* per channel: run_test's backoff
    consecutive_errors,   \* per channel: run_test's consecutive_errors
    slept,                \* per channel: the arguments of asyncio.sleep so far
    now,                  \* time.time(), in ticks of 1/TicksPerMs ms
    sent                  \* the requests built so far: headers and body

vars == <<variant, pairs, requests_per_pair, initial_delay, rpc, cur,
          all_results, ret, pc, i, results, tasks, call, backoff,
          consecutive_errors, slept, now, sent>>

\* the arguments of the run; and the clock and the requests as built, which
\* no step of Spec looks at
config == <<variant, pairs, requests_per_pair, initial_delay, now, sent>>

Channels == 1..Len(pairs)

NoValue == [kind |-> "pending", value |-> <<>>]
Returned(v) == [kind |-> "returned", value |-> v]
Raised == [kind |-> "CancelledError", value |-> <<>>]

\* lists of 1..MaxPairs pairs, the same pair possibly twice
RECURSIVE SeqsUpTo(_, _)
SeqsUpTo(S, n) ==
    IF n = 0 THEN {<<>>}
    ELSE LET shorter == SeqsUpTo(S, n - 1) IN
         shorter \cup {Append(s, x) : s \in {t \in shorter : Len(t) = n - 1}, x \in S}
\* (pair names are opaque to the two multi-pair testers: lists are taken up
\* to renaming, the first pair being "btc_idr")
PairLists == {s \in SeqsUpTo(PairNames, MaxPairs) : Len(s) >= 1 /\ s[1] = "btc_idr"}

Init ==
    /\ variant \in Variants
    /\ \/ /\ variant \in {RAPID, CCXT}
          /\ pairs \in PairLists
          /\ requests_per_pair \in 0..MaxRequests
          /\ initial_delay = Ms(FixedIntervalMs)
       \/ /\ variant = SINGLE
          /\ pairs \in {<<p>> : p \in PairNames}
          /\ requests_per_pair \in 0..MaxNumRequests
          /\ initial_delay \in {Ms(d) : d \in InitialDelays}
    /\ rpc = "init"
    /\ cur = 1
    /\ all_results = <<>>
    /\ ret = NoValue
    /\ pc = [c \in Channels |-> "idle"]
    /\ i = [c \in Channels |-> 0]
    /\ results = [c \in Channels |-> <<>>]
    /\ tasks = [c \in Channels |-> <<>>]
    /\ call = [c \in Channels |-> <<>>]
    /\ backoff = [c \in Channels |-> initial_delay]
    /\ consecutive_errors = [c \in Channels |-> 0]
    /\ slept = [c \in Channels |-> <<>>]
    /\ now = 0
    /\ sent = <<>>


\* ------------------------------------------------------ shared code shapes
\* (mutant) the ids start one too high
RequestIdOffByOne(start_id, k) == start_id + k + 1
\* for i in range(n): request_id = start_id + i
RequestId(start_id, k) == start_id + k
\* (mutant) the index is not multiplied by the number of requests
StartIdUnscaled(idx, n) == idx
\* enumerate(pairs): the channel at (0-based) index idx starts at idx * n
StartIdOfIndex(idx, n) == idx * n
StartId(c) == StartIdOfIndex(c - 1, requests_per_pair)

\* (mutant) connection errors are not among the exceptions caught
EscapesTransport(kind) == kind \in {"transport", "NetworkError"}
\* `except Exception` of send_trade_request encloses the whole network call
\* and the decoding of the body: no outcome leaves send_trade_request as an
\* exception.
Escapes(kind) == FALSE

\* str(e) of the exception caught
ExceptionText(kind) ==
    IF kind = "transport" THEN "ClientConnectorError"
    ELSE IF kind = "undecodable" THEN "ContentTypeError" ELSE kind
IsDict(response) == response \in BodyNames

\* (mutant) the comparison is turned round: no sleep is ever taken
NotLastRequestInverted(k, n) == k > n - 1
\* if i < n - 1: (the blocking testers do not sleep after the last request)
NotLastRequest(k, n) == k < n - 1

\* a send_trade_request coroutine suspended in its network call
Pending(request_id) == [request_id |-> request_id]

\* number of requests of channel c sent and not yet answered
InFlight(c) ==
    Len(call[c]) + Cardinality({k \in 1..Len(tasks[c]) : tasks[c][k].state = "pending"})
\* number of requests channel c has issued so far
Issued(c) ==
    IF variant = RAPID
    THEN IF pc[c] = "done" THEN Len(results[c]) ELSE Len(tasks[c])
    ELSE Len(results[c]) + Len(call[c])

\* (mutant) the lists are joined last first
RECURSIVE FlattenLastFirst(_)
FlattenLastFirst(ss) == IF ss = <<>> THEN <<>> ELSE FlattenLastFirst(Tail(ss)) \o Head(ss)
\* [item for sublist in all_results for item in sublist]
RECURSIVE Flatten(_)
Flatten(ss) == IF ss = <<>> THEN <<>> ELSE Head(ss) \o Flatten(Tail(ss))

\* ------------------------------------------------------ single_pair_test.py
SP_send_trade_request(pair, request_id, o) ==
    IF o.kind = "response"
    THEN [request_id |-> request_id, pair |-> pair, status |-> o.status,
          response |-> o.body]
    ELSE [request_id |-> request_id, pair |-> pair, status |-> "error",
          response |-> ExceptionText(o.kind)]

\* (mutant) the doubling is not capped
IncreaseBackoffUncapped(b) == Times2(b)
\* backoff = min(backoff * 2, 5.0)
IncreaseBackoff(b) == RatMin(Times2(b), Ms(CeilingMs))
\* (mutants) the division is forgotten; the floor is forgotten
DecreaseBackoffStuck(b, initial) == RatMax(initial, b)
DecreaseBackoffNoFloor(b, initial) == DivideBy1p5(b)
\* backoff = max(initial_delay, backoff / 1.5)
DecreaseBackoff(b, initial) == RatMax(initial, DivideBy1p5(b))

\* result['response'].get('error_code') of a dict response, "" when absent
ErrorCodeOf(response) == IF IsDict(response) THEN BodyErrorCode(response) ELSE ""
\* the response is a dict without an error_code
IsClean(response) == IsDict(response) /\ BodyErrorCode(response) = ""
\* error == 'too_many_requests_from_your_ip'
IsTooMany(response) == IsDict(response) /\ BodyErrorCode(response) = TooManyCode

\* the backoff after a result, lines 84-96
\* (mutant) every error code doubles the delay
NextBackoffAnyError(b, initial, response) ==
    IF IsDict(response)
    THEN IF ErrorCodeOf(response) # "" THEN IncreaseBackoff(b)
         ELSE DecreaseBackoff(b, initial)
    ELSE b
\* the backoff after a result, lines 84-96
NextBackoff(b, initial, response) ==
    IF IsDict(response)
    THEN IF ErrorCodeOf(response) # ""
         THEN IF ErrorCodeOf(response) = TooManyCode THEN IncreaseBackoff(b) ELSE b
         ELSE DecreaseBackoff(b, initial)
    ELSE b
NextConsecutiveErrors(n, response) ==
    IF IsDict(response)
    THEN IF ErrorCodeOf(response) # "" THEN n + 1 ELSE 0
    ELSE n

\* run_test up to its first await: the session is opened, the locals are
\* set and request 0 is sent (or the empty list returned)
SP_run_test ==
    /\ variant = SINGLE
    /\ rpc = "init"
    /\ results' = [results EXCEPT ![1] = <<>>]
    /\ backoff' = [backoff EXCEPT ![1] = initial_delay]
    /\ consecutive_errors' = [consecutive_errors EXCEPT ![1] = 0]
    /\ i' = [i EXCEPT ![1] = 0]
    /\ IF requests_per_pair > 0
       THEN /\ call' = [call EXCEPT ![1] = <<Pending(RequestId(0, 0))>>]
            /\ pc' = [pc EXCEPT ![1] = "await"]
            /\ rpc' = "running"
            /\ ret' = ret
       ELSE /\ call' = call
            /\ pc' = [pc EXCEPT ![1] = "done"]
            /\ rpc' = "returned"
            /\ ret' = Returned(<<>>)
    /\ UNCHANGED <<config, cur, all_results, tasks, slept>>

\* the awaited send_trade_request returns: the result is appended, the
\* backoff adjusted, and run_test sleeps (or, after the last request, returns)
SP_result(o) ==
    /\ variant = SINGLE
    /\ rpc = "running"
    /\ pc[1] = "await"
    /\ IF Escapes(o.kind)
       THEN /\ pc' = [pc EXCEPT ![1] = "raised"]
            /\ rpc' = "raised"
            /\ ret' = [kind |-> "Exception", value |-> <<>>]
            /\ call' = [call EXCEPT ![1] = <<>>]
            /\ UNCHANGED <<results, backoff, consecutive_errors, i, slept>>
       ELSE LET result == SP_send_trade_request(pairs[1], call[1][1].request_id, o)
                b == NextBackoff(backoff[1], initial_delay, result.response)
            IN
            /\ results' = [results EXCEPT ![1] = Append(@, result)]
            /\ backoff' = [backoff EXCEPT ![1] = b]
            /\ consecutive_errors' =
                   [consecutive_errors EXCEPT ![1] = NextConsecutiveErrors(@, result.response)]
            /\ IF NotLastRequest(i[1], requests_per_pair)
               THEN /\ slept' = [slept EXCEPT ![1] = Append(@, b)]
                    /\ pc' = [pc EXCEPT ![1] = "sleep"]
                    /\ call' = [call EXCEPT ![1] = <<>>]
                    /\ UNCHANGED <<i, rpc, ret>>
               ELSE IF i[1] + 1 < requests_per_pair
               THEN \* no sleep: the loop goes on to the next request at once
                    /\ i' = [i EXCEPT ![1] = @ + 1]
                    /\ call' = [call EXCEPT ![1] =
                           <<Pending(RequestId(0, i[1] + 1))>>]
                    /\ UNCHANGED <<pc, slept, rpc, ret>>
               ELSE /\ i' = [i EXCEPT ![1] = @ + 1]
                    /\ pc' = [pc EXCEPT ![1] = "done"]
                    /\ call' = [call EXCEPT ![1] = <<>>]
                    /\ rpc' = "returned"
                    /\ ret' = Returned(results'[1])
                    /\ UNCHANGED <<slept>>
    /\ UNCHANGED <<config, cur, all_results, tasks>>

\* asyncio.sleep(backoff) is over: the next iteration sends its request
SP_next ==
    /\ variant = SINGLE
    /\ rpc = "running"
    /\ pc[1] = "sleep"
    /\ i' = [i EXCEPT ![1] = @ + 1]
    /\ call' = [call EXCEPT ![1] =
           <<Pending(RequestId(0, i[1] + 1))>>]
    /\ pc' = [pc EXCEPT ![1] = "await"]
    /\ UNCHANGED <<config, rpc, cur, all_results, ret, results, tasks, backoff,
                   consecutive_errors, slept>>

\* ------------------------------------------------------ ccxt_rapid_hitter.py
CX_send_trade_request(pair, request_id, o) ==
    [request_id |-> request_id, pair |-> pair,
     status |-> IF o = "returned" THEN "200"
                ELSE IF o = "NetworkError" THEN "network_error"
                ELSE IF o = "ExchangeError" THEN "exchange_error"
                ELSE "error",
     response |-> IF o = "returned" THEN "order" ELSE o]

\* run_rate_limit_test up to its await: gather() wraps one run_pair_requests
\* coroutine per pair into a task, and every task runs up to its first await
\* (request 0 sent) before anything else can happen
CX_run_rate_limit_test ==
    /\ variant = CCXT
    /\ rpc = "init"
    /\ rpc' = "running"
    /\ results' = [c \in Channels |-> <<>>]
    /\ i' = [c \in Channels |-> 0]
    /\ IF requests_per_pair > 0
       THEN /\ call' = [c \in Channels |-> <<Pending(RequestId(StartId(c), 0))>>]
            /\ pc' = [c \in Channels |-> "await"]
       ELSE /\ call' = call
            /\ pc' = [c \in Channels |-> "done"]
    /\ UNCHANGED <<config, cur, all_results, ret, tasks, backoff,
                   consecutive_errors, slept>>

\* (mutant) results is one list shared by the channels
LogShared(rs, c, result) == [k \in DOMAIN rs |-> Append(rs[k], result)]
\* results.append(result): results is a local of channel c's
\* run_pair_requests
Log(rs, c, result) == [rs EXCEPT ![c] = Append(@, result)]

\* the awaited send_trade_request of channel c returns
CX_result(c, o) ==
    /\ variant = CCXT
    /\ rpc = "running"
    /\ pc[c] = "await"
    /\ IF Escapes(o)
       THEN /\ pc' = [k \in Channels |-> IF pc[k] = "done" THEN "done" ELSE "raised"]
            /\ rpc' = "raised"
            /\ ret' = [kind |-> "Exception", value |-> <<>>]
            /\ call' = [k \in Channels |-> <<>>]
            /\ UNCHANGED <<results, i, slept>>
       ELSE LET result == CX_send_trade_request(pairs[c], call[c][1].request_id, o)
            IN
            /\ results' = Log(results, c, result)
            /\ UNCHANGED <<rpc, ret>>
            /\ IF NotLastRequest(i[c], requests_per_pair)
               THEN /\ slept' = [slept EXCEPT ![c] = Append(@, Ms(FixedIntervalMs))]
                    /\ pc' = [pc EXCEPT ![c] = "sleep"]
                    /\ call' = [call EXCEPT ![c] = <<>>]
                    /\ i' = i
               ELSE IF i[c] + 1 < requests_per_pair
               THEN /\ i' = [i EXCEPT ![c] = @ + 1]
                    /\ call' = [call EXCEPT ![c] =
                           <<Pending(RequestId(StartId(c), i[c] + 1))>>]
                    /\ UNCHANGED <<pc, slept>>
               ELSE /\ i' = [i EXCEPT ![c] = @ + 1]
                    /\ pc' = [pc EXCEPT ![c] = "done"]
                    /\ call' = [call EXCEPT ![c] = <<>>]
                    /\ UNCHANGED <<slept>>
    /\ UNCHANGED <<config, cur, all_results, tasks, backoff, consecutive_errors>>

\* asyncio.sleep(0.060) of channel c is over: the next request is sent
CX_next(c) ==
    /\ variant = CCXT
    /\ rpc = "running"
    /\ pc[c] = "sleep"
    /\ i' = [i EXCEPT ![c] = @ + 1]
    /\ call' = [call EXCEPT ![c] =
           <<Pending(RequestId(StartId(c), i[c] + 1))>>]
    /\ pc' = [pc EXCEPT ![c] = "await"]
    /\ UNCHANGED <<config, rpc, cur, all_results, ret, results, tasks, backoff,
                   consecutive_errors, slept>>

\* every run_pair_requests has returned: gather() yields the lists in the
\* order of pairs and run_rate_limit_test returns them flattened
CX_gather ==
    /\ variant = CCXT
    /\ rpc = "running"
    /\ \A c \in Channels : pc[c] = "done"
    /\ rpc' = "returned"
    /\ ret' = Returned(Flatten([c \in Channels |-> results[c]]))
    /\ UNCHANGED <<config, cur, all_results, pc, i, results, tasks, call,
                   backoff, consecutive_errors, slept>>

\* ----------------------------------------------------------- rapid_hitter.py
\* (mutant) the marker is looked for in error_msg itself, not in its
\* lower-cased form
IsRateLimitedCaseSensitive(body) ==
    LET error_msg == IF HasKey(body, "error") THEN BodyError(body) ELSE <<>> IN
    error_msg # <<>> /\ Contains(error_msg, RateLimitMarker)
\* error_msg and 'try again in 5 seconds' in error_msg.lower()
IsRateLimited(body) ==
    LET error_msg == IF HasKey(body, "error") THEN BodyError(body) ELSE <<>> IN
    error_msg # <<>> /\ Contains(Lower(error_msg), RateLimitMarker)

RH_send_trade_request(pair, request_id, o) ==
    IF o.kind = "response"
    THEN [request_id |-> request_id, pair |-> pair, status |-> o.status,
          response |-> o.body, is_rate_limited |-> IsRateLimited(o.body)]
    ELSE [request_id |-> request_id, pair |-> pair, status |-> "error",
          response |-> ExceptionText(o.kind), is_rate_limited |-> FALSE]

\* asyncio.create_task(self.send_trade_request(session, pair, request_id)):
\* the task runs up to its network call as soon as its creator sleeps
NewTask(request_id) ==
    [request_id |-> request_id, state |-> "pending", finished_at |-> 0, result |-> <<>>]
NumFinished(ts) == Cardinality({k \in 1..Len(ts) : ts[k].state = "finished"})

\* (mutant) the results are collected in the order of completion
GatherAsCompleted(ts) ==
    [p \in 1..Len(ts) |-> ts[CHOOSE k \in 1..Len(ts) : ts[k].finished_at = p].result[1]]
\* asyncio.gather(*tasks): the results in the order of the tasks
Gather(ts) == [k \in 1..Len(ts) |-> ts[k].result[1]]

\* (mutant) the pairs are not awaited in turn
RH_TurnAll(c) == TRUE
\* (mutant) only the first pair is ever run
RH_TurnFirstOnly(c) == cur = c /\ c = 1
\* for i, pair in enumerate(pairs): results = await self.run_pair_requests(...)
\* the pair at position c is run when the pairs before it have returned
RH_Turn(c) == cur = c

\* run_rate_limit_test up to the loop over the pairs
RH_run_rate_limit_test ==
    /\ variant = RAPID
    /\ rpc = "init"
    /\ rpc' = "running"
    /\ all_results' = <<>>
    /\ cur' = 1
    /\ UNCHANGED <<config, ret, pc, i, results, tasks, call, backoff,
                   consecutive_errors, slept>>

\* run_pair_requests of pair c up to its first await: task 0 is created and
\* the 60 ms sleep begins (with no request at all: the empty gather)
RH_run_pair_requests(c) ==
    /\ variant = RAPID
    /\ rpc = "running"
    /\ RH_Turn(c)
    /\ pc[c] = "idle"
    /\ results' = [results EXCEPT ![c] = <<>>]
    /\ i' = [i EXCEPT ![c] = 0]
    /\ IF requests_per_pair > 0
       THEN /\ tasks' = [tasks EXCEPT ![c] = <<NewTask(RequestId(StartId(c), 0))>>]
            /\ slept' = [slept EXCEPT ![c] = Append(@, Ms(FixedIntervalMs))]
            /\ pc' = [pc EXCEPT ![c] = "sleep"]
       ELSE /\ tasks' = [tasks EXCEPT ![c] = <<>>]
            /\ pc' = [pc EXCEPT ![c] = "gather"]
            /\ UNCHANGED <<slept>>
    /\ UNCHANGED <<config, rpc, cur, all_results, ret, call, backoff,
                   consecutive_errors>>

\* asyncio.sleep(0.060) of pair c is over: the next task is created and the
\* next sleep begins, or the loop is over and the tasks are gathered
RH_next(c) ==
    /\ variant = RAPID
    /\ rpc = "running"
    /\ pc[c] = "sleep"
    /\ i' = [i EXCEPT ![c] = @ + 1]
    /\ IF i[c] + 1 < requests_per_pair
       THEN /\ tasks' = [tasks EXCEPT ![c] =
                   Append(@, NewTask(RequestId(StartId(c), i[c] + 1)))]
            /\ slept' = [slept EXCEPT ![c] = Append(@, Ms(FixedIntervalMs))]
            /\ pc' = pc
       ELSE /\ pc' = [pc EXCEPT ![c] = "gather"]
            /\ UNCHANGED <<tasks, slept>>
    /\ UNCHANGED <<config, rpc, cur, all_results, ret, results, call, backoff,
                   consecutive_errors>>

\* the network call of task k of pair c is over: the task finishes with its
\* result
RH_task_done(c, k, o) ==
    /\ variant = RAPID
    /\ rpc = "running"
    /\ k \in 1..Len(tasks[c])
    /\ tasks[c][k].state = "pending"
    /\ IF Escapes(o.kind)
       THEN /\ tasks' = [tasks EXCEPT ![c][k].state = "raised"]
            /\ pc' = [j \in Channels |-> IF pc[j] = "done" THEN "done" ELSE "raised"]
            /\ rpc' = "raised"
            /\ ret' = [kind |-> "Exception", value |-> <<>>]
       ELSE /\ tasks' = [tasks EXCEPT ![c][k] =
                   [@ EXCEPT !.state = "finished",
                             !.finished_at = NumFinished(tasks[c]) + 1,
                             !.result = <<RH_send_trade_request(pairs[c],
                                              tasks[c][k].request_id, o)>>]]
            /\ UNCHANGED <<pc, rpc, ret>>
    /\ UNCHANGED <<config, cur, all_results, i, results, call, backoff,
                   consecutive_errors, slept>>

\* every task of pair c has finished: the awaited gather() yields the
\* results, which are then printed
RH_gather(c) ==
    /\ variant = RAPID
    /\ rpc = "running"
    /\ pc[c] = "gather"
    /\ \A k \in 1..Len(tasks[c]) : tasks[c][k].state = "finished"
    /\ results' = [results EXCEPT ![c] = Gather(tasks[c])]
    /\ pc' = [pc EXCEPT ![c] = "print"]
    /\ UNCHANGED <<config, rpc, cur, all_results, ret, i, tasks, call, backoff,
                   consecutive_errors, slept>>

\* run_pair_requests of pair c returns its results (its local list of tasks
\* is gone) and run_rate_limit_test extends all_results with them
RH_extend(c) ==
    /\ variant = RAPID
    /\ rpc = "running"
    /\ pc[c] = "print"
    /\ pc' = [pc EXCEPT ![c] = "done"]
    /\ tasks' = [tasks EXCEPT ![c] = <<>>]
    /\ all_results' = all_results \o results[c]
    /\ cur' = cur + 1
    /\ UNCHANGED <<config, rpc, ret, i, results, call, backoff,
                   consecutive_errors, slept>>

\* the loop over the pairs is over: return all_results
RH_return ==
    /\ variant = RAPID
    /\ rpc = "running"
    /\ cur > Len(pairs)
    /\ rpc' = "returned"
    /\ ret' = Returned(all_results)
    /\ UNCHANGED <<config, cur, all_results, pc, i, results, tasks, call,
                   backoff, consecutive_errors, slept>>

\* ------------------------------------------------------------- cancellation
\* The caller cancels the run (task.cancel(), asyncio.wait_for's timeout)
\* while it is suspended in a sleep, a network call or a gather.
\* CancelledError is raised at that await; it is not an Exception, so no
\* `except Exception` catches it and no function of the testers returns: the
\* lists held in their locals are left as they were and are not handed to
\* the caller.  A cancelled gather() cancels the tasks it waits for; the
\* tasks rapid_hitter created before a cancelled sleep are awaited by nobody
\* and stay as they are (nobody sees them complete).
Cancel ==
    /\ rpc = "running"
    /\ \E c \in Channels : pc[c] \in {"await", "sleep", "gather"}
    /\ rpc' = "cancelled"
    /\ ret' = Raised
    /\ pc' = [c \in Channels |-> IF pc[c] = "done" THEN "done" ELSE "cancelled"]
    /\ call' = [c \in Channels |-> <<>>]
    /\ tasks' = [c \in Channels |->
                   [k \in 1..Len(tasks[c]) |->
                       IF tasks[c][k].state = "pending" /\ pc[c] = "gather"
                       THEN [tasks[c][k] EXCEPT !.state = "cancelled"]
                       ELSE tasks[c][k]]]
    /\ UNCHANGED <<config, cur, all_results, i, results, backoff,
                   consecutive_errors, slept>>

\* ---------------------------------------------------------- specifications
Next ==
    \/ SP_run_test
    \/ \E o \in HttpOutcomes : SP_result(o)
    \/ SP_next
    \/ CX_run_rate_limit_test
    \/ \E c \in Channels, o \in CcxtOutcomes : CX_result(c, o)
    \/ \E c \in Channels : CX_next(c)
    \/ CX_gather
    \/ RH_run_rate_limit_test
    \/ \E c \in Channels : RH_run_pair_requests(c)
    \/ \E c \in Channels : RH_next(c)
    \/ \E c \in Channels, k \in 1..MaxRequests + 1, o \in HttpOutcomes :
           RH_task_done(c, k, o)
    \/ \E c \in Channels : RH_gather(c)
    \/ \E c \in Channels : RH_extend(c)
    \/ RH_return
    \/ Cancel

Spec == Init /\ [][Next]_vars

\* Every step but the cancellation: the event loop runs a coroutine that is
\* ready, a sleep ends, and a network call returns or fails.
Progress ==
    \/ SP_run_test
    \/ \E o \in HttpOutcomes : SP_result(o)
    \/ SP_next
    \/ CX_run_rate_limit_test
    \/ \E c \in Channels, o \in CcxtOutcomes : CX_result(c, o)
    \/ \E c \in Channels : CX_next(c)
    \/ CX_gather
    \/ RH_run_rate_limit_test
    \/ \E c \in Channels : RH_run_pair_requests(c)
    \/ \E c \in Channels : RH_next(c)
    \/ \E c \in Channels, k \in 1..MaxRequests + 1, o \in HttpOutcomes :
           RH_task_done(c, k, o)
    \/ \E c \in Channels : RH_gather(c)
    \/ \E c \in Channels : RH_extend(c)
    \/ RH_return

FairSpec == Spec /\ WF_vars(Progress)

\* ------------------------------------------------- the requests as built
\* A params dict is the sequence of its <<key, value>> items in insertion
\* order; 'timestamp' and 'recvWindow' hold ints, the other keys strings.
MaxBuilt == 2
TicksPerMs == 2
ApiKey == "YOUR_API_KEY"
SecretKey == "YOUR_SECRET_KEY"
Quantity == "0.00001"
IntKeys == {"timestamp", "recvWindow"}

\* the pairs a request is built for, and their characters
BuildPairs == {"btc_idr", "eth_idr", "ltc_idr", "btcidr"}
PairChars(pair) ==
    IF pair = "btc_idr" THEN <<"b","t","c","_","i","d","r">>
    ELSE IF pair = "eth_idr" THEN <<"e","t","h","_","i","d","r">>
    ELSE IF pair = "ltc_idr" THEN <<"l","t","c","_","i","d","r">>
    ELSE <<"b","t","c","i","d","r">>

\* ''.join(cs)
RECURSIVE Join(_)
Join(cs) == IF cs = <<>> THEN "" ELSE Head(cs) \o Join(Tail(cs))

\* s.split('_')[0]: the characters before the first '_', all of them if
\* there is none
RECURSIVE SplitFirst(_)
SplitFirst(cs) ==
    IF cs = <<>> \/ Head(cs) = "_" THEN <<>>
    ELSE <<Head(cs)>> \o SplitFirst(Tail(cs))
\* base_currency = pair.split('_')[0]
BaseCurrency(pair) == Join(SplitFirst(PairChars(pair)))

\* params[key] = value
SetItem(params, key, value) ==
    IF \E k \in 1..Len(params) : params[k][1] = key
    THEN [k \in 1..Len(params) |->
             IF params[k][1] = key THEN <<key, value>> ELSE params[k]]
    ELSE Append(params, <<key, value>>)
\* key in params
HasItem(params, key) == \E k \in 1..Len(params) : params[k][1] = key
\* params[key]
GetItem(params, key) == params[CHOOSE k \in 1..Len(params) : params[k][1] = key][2]

\* str(n) of an int n >= 0
DigitChars == <<"0", "1", "2", "3", "4", "5", "6", "7", "8", "9">>
RECURSIVE Decimal(_)
Decimal(n) ==
    IF n < 10 THEN DigitChars[n + 1]
    ELSE Decimal(n \div 10) \o DigitChars[(n % 10) + 1]
\* urlencode(params): key=value joined by '&' (no key or value here has a
\* character that is quoted)
UrlItem(item) ==
    item[1] \o "=" \o (IF item[1] \in IntKeys THEN Decimal(item[2]) ELSE item[2])
RECURSIVE Urlencode(_)
Urlencode(params) ==
    IF params = <<>> THEN ""
    ELSE UrlItem(Head(params))
             \o (IF Len(params) > 1 THEN "&" \o Urlencode(Tail(params)) ELSE "")
\* hmac.new(key, msg, hashlib.sha512).hexdigest(): the digest is the term of
\* its key and message (no collision)
HmacSha512(key, msg) == [digest |-> "hmac_sha512", key |-> key, msg |-> msg]
\* _generate_signature(params)
GenerateSignature(params) == HmacSha512(SecretKey, Urlencode(params))

\* (mutant) time in seconds: int(time.time())
TimestampSeconds(t) == t \div (TicksPerMs * 1000)
\* int(time.time() * 1000) at time t
TimestampMs(t) == t \div TicksPerMs

\* rapid_hitter: the params dict of lines 31-39
RH_Params(pair, t) ==
    << <<"method", "trade">>, <<"timestamp", TimestampMs(t)>>,
       <<"recvWindow", 5000>>, <<"pair", pair>>, <<"type", "buy">>,
       <<"price", "50000000000">>, <<"order_type", "limit">> >>
\* (mutant) the quantity is added after the signature is computed
RH_BuildRequestSignsEarly(pair, request_id, t) ==
    LET params == RH_Params(pair, t)
        signature == GenerateSignature(params)
    IN [request_id |-> request_id, pair |-> pair,
        headers |-> [Key |-> ApiKey, Sign |-> signature],
        data |-> SetItem(params, BaseCurrency(pair), Quantity)]
\* rapid_hitter's send_trade_request up to session.post (lines 31-51)
RH_BuildRequest(pair, request_id, t) ==
    LET params == SetItem(RH_Params(pair, t), BaseCurrency(pair), Quantity)
        signature == GenerateSignature(params)
    IN [request_id |-> request_id, pair |-> pair,
        headers |-> [Key |-> ApiKey, Sign |-> signature],
        data |-> params]

\* single_pair_test: the params dict of lines 22-30
SP_Params(pair, t) ==
    << <<"method", "trade">>, <<"timestamp", TimestampMs(t)>>,
       <<"recvWindow", 5000>>, <<"pair", pair>>, <<"type", "buy">>,
       <<"price", "100000">>, <<"order_type", "limit">> >>
\* lines 32-35: the quantity of a btc or an eth pair
SP_WithQuantity(params, base_currency) ==
    IF base_currency = "btc" THEN SetItem(params, "btc", Quantity)
    ELSE IF base_currency = "eth" THEN SetItem(params, "eth", Quantity)
    ELSE params
\* single_pair_test's send_trade_request up to session.post (lines 21-46)
SP_BuildRequest(pair, request_id, t) ==
    LET base_currency == BaseCurrency(pair)
        params == SP_WithQuantity(SP_Params(pair, t), base_currency)
        signature == GenerateSignature(params)
    IN [request_id |-> request_id, pair |-> pair,
        headers |-> [Key |-> ApiKey, Sign |-> signature],
        data |-> params]
BuildRequest(pair, request_id, t) ==
    IF variant = RAPID THEN RH_BuildRequest(pair, request_id, t)
    ELSE SP_BuildRequest(pair, request_id, t)

\* One channel with a clock: when each request is built and what it holds.
\* A network call takes one of Latencies ticks, a sleep lasts at least its
\* argument and at most Oversleep ticks more.
Latencies == {0, 1, TicksPerMs + 1}
Oversleep == {0, 1}
\* the first tick at which a sleep of d ms begun at tick t is over
SleepEnd(t, d) == t + (d.n * TicksPerMs + d.d - 1) \div d.d

\* run_test's initial_delay: none, half a millisecond, one millisecond, the
\* default
BuildDelays == {Ms(0), Rat(1, 2), Ms(1), Ms(FixedIntervalMs)}

BuildInit ==
    /\ variant \in {RAPID, SINGLE}
    /\ pairs \in {<<p>> : p \in BuildPairs}
    /\ requests_per_pair \in 0..MaxBuilt
    /\ initial_delay \in
           IF variant = SINGLE THEN BuildDelays ELSE {Ms(FixedIntervalMs)}
    /\ rpc = "init"
    /\ cur = 1
    /\ all_results = <<>>
    /\ ret = NoValue
    /\ pc = [c \in Channels |-> "idle"]
    /\ i = [c \in Channels |-> 0]
    /\ results = [c \in Channels |-> <<>>]
    /\ tasks = [c \in Channels |-> <<>>]
    /\ call = [c \in Channels |-> <<>>]
    /\ backoff = [c \in Channels |-> initial_delay]
    /\ consecutive_errors = [c \in Channels |-> 0]
    /\ slept = [c \in Channels |-> <<>>]
    /\ now = 0
    /\ sent = <<>>

\* what the steps below leave alone
BuildFrame ==
    UNCHANGED <<variant, pairs, requests_per_pair, initial_delay, rpc, cur,
                all_results, ret, results, tasks, call, consecutive_errors>>

\* run_test / run_pair_requests begins at some time t: the first request is
\* built and sent (single_pair_test awaits it, rapid_hitter sleeps)
B_begin(t) ==
    /\ pc[1] = "idle"
    /\ now' = t
    /\ i' = [i EXCEPT ![1] = 0]
    /\ backoff' = [backoff EXCEPT ![1] = initial_delay]
    /\ IF requests_per_pair > 0
       THEN /\ sent' = Append(sent, BuildRequest(pairs[1], RequestId(0, 0), t))
            /\ IF variant = RAPID
               THEN /\ pc' = [pc EXCEPT ![1] = "sleep"]
                    /\ slept' = [slept EXCEPT ![1] = Append(@, Ms(FixedIntervalMs))]
               ELSE /\ pc' = [pc EXCEPT ![1] = "await"]
                    /\ slept' = slept
       ELSE /\ pc' = [pc EXCEPT ![1] = IF variant = RAPID THEN "gather" ELSE "done"]
            /\ UNCHANGED <<sent, slept>>
    /\ BuildFrame

\* single_pair_test: the awaited call is over after dt ticks with outcome o;
\* the backoff is adjusted and slept, or the run is over
B_SP_result(o, dt) ==
    /\ variant = SINGLE
    /\ pc[1] = "await"
    /\ now' = now + dt
    /\ LET result == SP_send_trade_request(pairs[1], i[1], o)
           b == NextBackoff(backoff[1], initial_delay, result.response)
       IN /\ backoff' = [backoff EXCEPT ![1] = b]
          /\ IF NotLastRequest(i[1], requests_per_pair)
             THEN /\ slept' = [slept EXCEPT ![1] = Append(@, b)]
                  /\ pc' = [pc EXCEPT ![1] = "sleep"]
                  /\ i' = i
             ELSE /\ i' = [i EXCEPT ![1] = @ + 1]
                  /\ pc' = [pc EXCEPT ![1] = "done"]
                  /\ slept' = slept
    /\ sent' = sent
    /\ BuildFrame

\* single_pair_test: the sleep is over, late ticks late; the next request is
\* built and sent
B_SP_next(late) ==
    /\ variant = SINGLE
    /\ pc[1] = "sleep"
    /\ now' = SleepEnd(now, backoff[1]) + late
    /\ i' = [i EXCEPT ![1] = @ + 1]
    /\ sent' = Append(sent, BuildRequest(pairs[1], RequestId(0, i[1] + 1), now'))
    /\ pc' = [pc EXCEPT ![1] = "await"]
    /\ UNCHANGED <<backoff, slept>>
    /\ BuildFrame

\* rapid_hitter: the 60 ms sleep is over, late ticks late; the next task is
\* created and builds its request as the next sleep begins, or the loop is
\* over
B_RH_next(late) ==
    /\ variant = RAPID
    /\ pc[1] = "sleep"
    /\ now' = SleepEnd(now, Ms(FixedIntervalMs)) + late
    /\ i' = [i EXCEPT ![1] = @ + 1]
    /\ IF i[1] + 1 < requests_per_pair
       THEN /\ sent' = Append(sent, BuildRequest(pairs[1], RequestId(0, i[1] + 1), now'))
            /\ slept' = [slept EXCEPT ![1] = Append(@, Ms(FixedIntervalMs))]
            /\ pc' = pc
       ELSE /\ pc' = [pc EXCEPT ![1] = "gather"]
            /\ UNCHANGED <<sent, slept>>
    /\ UNCHANGED <<backoff>>
    /\ BuildFrame

\* rapid_hitter: the requests in flight are over dt ticks later and the
\* gather returns
B_RH_gather(dt) ==
    /\ variant = RAPID
    /\ pc[1] = "gather"
    /\ now' = now + dt
    /\ pc' = [pc EXCEPT ![1] = "done"]
    /\ UNCHANGED <<i, backoff, slept, sent>>
    /\ BuildFrame

BuildNext ==
    \/ \E t \in 0..TicksPerMs : B_begin(t)
    \/ \E o \in HttpOutcomes, dt \in Latencies : B_SP_result(o, dt)
    \/ \E late \in Oversleep : B_SP_next(late)
    \/ \E late \in Oversleep : B_RH_next(late)
    \/ \E dt \in Latencies : B_RH_gather(dt)

BuildSpec == BuildInit /\ [][BuildNext]_vars

\* main's summary of the returned results: success is the number of results
\* with isinstance(r['status'], int) and r['status'] == 200, errors the rest
IsInt(status) == status \in HttpStatuses
Success(rs) ==
    Cardinality({k \in 1..Len(rs) : IsInt(rs[k].status) /\ rs[k].status = "200"})
Errors(rs) == Len(rs) - Success(rs)

\* rapid_hitter on one pair, the remote answering with any status and any
\* body.
ClassifyInit ==
    /\ Init
    /\ variant = RAPID
    /\ pairs = <<"btc_idr">>
    /\ requests_per_pair \in 1..MaxRequests

ClassifyNext ==
    \/ RH_run_rate_limit_test
    \/ \E c \in Channels : RH_run_pair_requests(c)
    \/ \E c \in Channels : RH_next(c)
    \/ \E c \in Channels, k \in 1..MaxRequests + 1, o \in ClassifyOutcomes :
           RH_task_done(c, k, o)
    \/ \E c \in Channels : RH_gather(c)
    \/ \E c \in Channels : RH_extend(c)
    \/ RH_return

ClassifySpec == ClassifyInit /\ [][ClassifyNext]_vars

\* ------------------------------------------------------------------ claims
Ids(rs) == [k \in 1..Len(rs) |-> rs[k].request_id]
Multi == variant \in {RAPID, CCXT}
\* channel a has sent a request and has not returned, channel b has sent one
Overlap(a, b) ==
    /\ Issued(a) >= 1
    /\ pc[a] \in {"await", "sleep", "gather", "print"}
    /\ Issued(b) >= 1

C2_CancelKeepsLogs ==
    (rpc = "cancelled" /\ \E c \in Channels : Len(results[c]) >= 1)
        => /\ \A c \in Channels : pc[c] \in {"done", "cancelled"} /\ InFlight(c) = 0
           /\ ret.kind = "returned"
           /\ ret.value = Flatten([c \in Channels |-> results[c]])

\* C3: no outcome of a request aborts a channel or the run: nothing is ever
\* raised out of a channel, a channel that has returned has logged exactly N
\* results, and a blocking channel has slept once after each logged result
\* but the last, whatever the outcomes were.
C3_NoOutcomeAborts ==
    /\ rpc # "raised"
    /\ \A c \in Channels :
           /\ pc[c] # "raised"
           /\ pc[c] = "done" => Len(results[c]) = requests_per_pair
           /\ (variant # RAPID /\ pc[c] # "idle")
                  => Len(slept[c]) =
                         IF Len(results[c]) < requests_per_pair \/ requests_per_pair = 0
                         THEN Len(results[c]) ELSE requests_per_pair - 1
           /\ variant = RAPID => Len(slept[c]) = Len(tasks[c]) \/ pc[c] \in {"done", "cancelled"}

C3_Witness ==
    /\ variant = SINGLE
    /\ rpc = "returned"
    /\ Len(ret.value) = requests_per_pair
    /\ \E k \in 1..Len(ret.value) : ret.value[k].response = "ClientConnectorError"
    /\ \E k \in 1..Len(ret.value) : ret.value[k].response = "ContentTypeError"
    /\ \E k \in 1..Len(ret.value) : ret.value[k].status = "400"
    /\ \E k \in 1..Len(ret.value) : ret.value[k].status = "200"

\* C4 (as stated): a channel that has returned has logged the sequence
\* numbers 0..N-1 in increasing order, in every channel of the run.
C4_IdsFromZero ==
    \A c \in Channels :
        pc[c] = "done" => Ids(results[c]) = [k \in 1..requests_per_pair |-> k - 1]

\* C4 (amended): the channel at position c (counted from 1) that has
\* returned has logged the request ids (c-1)*N .. (c-1)*N + N-1, without gap
\* or repeat, in increasing order; they are 0..N-1 for the first channel.
C4_IdsFromStartId ==
    \A c \in Channels :
        pc[c] = "done"
            => Ids(results[c]) =
                   [k \in 1..requests_per_pair |-> (c - 1) * requests_per_pair + k - 1]

C4_Witness ==
    /\ Multi
    /\ rpc = "returned"
    /\ Len(pairs) >= 2
    /\ requests_per_pair >= 2
    /\ Ids(results[2]) # Ids(results[1])

\* the request ids channel c has used so far
UsedIds(c) ==
    {results[c][k].request_id : k \in 1..Len(results[c])}
        \cup {call[c][k].request_id : k \in 1..Len(call[c])}
        \cup {tasks[c][k].request_id : k \in 1..Len(tasks[c])}

\* C5: in run_rate_limit_test the channel at index i only uses request ids
\* of i*N .. i*N+N-1 and has used all of them when it returns; the ranges of
\* two channels are disjoint and the merged result has no request id twice,
\* also when a pair is listed twice.
C5_DisjointRanges ==
    Multi =>
        /\ \A c \in Channels :
               /\ UsedIds(c) \subseteq
                      ((c - 1) * requests_per_pair)..((c - 1) * requests_per_pair + requests_per_pair - 1)
               /\ pc[c] = "done" => Cardinality(UsedIds(c)) = requests_per_pair
        /\ \A a, b \in Channels : a # b => UsedIds(a) \cap UsedIds(b) = {}
        /\ rpc = "returned"
               => \A j, k \in 1..Len(ret.value) :
                      j # k => ret.value[j].request_id # ret.value[k].request_id

C5_Witness ==
    /\ Multi
    /\ rpc = "returned"
    /\ pairs = <<"btc_idr", "btc_idr">>
    /\ requests_per_pair >= 2
    /\ Len(ret.value) = 2 * requests_per_pair

WithinBounds(d) == RatLE(initial_delay, d) /\ RatLE(d, Ms(CeilingMs))

\* C6 (as stated): whatever initial_delay is, every delay run_test sleeps
\* for is at least initial_delay and at most 5 s.
C6_DelayBounded ==
    variant = SINGLE => \A k \in 1..Len(slept[1]) : WithinBounds(slept[1][k])

\* C6 (amended): when 0 <= initial_delay <= 5 s, the backoff and every delay
\* run_test sleeps for are at least initial_delay and at most 5 s.
C6_DelayBoundedBelowCeiling ==
    (variant = SINGLE /\ RatLE(initial_delay, Ms(CeilingMs)))
        => /\ WithinBounds(backoff[1])
           /\ \A k \in 1..Len(slept[1]) : WithinBounds(slept[1][k])

C6_Witness ==
    /\ variant = SINGLE
    /\ RatLT(initial_delay, Ms(CeilingMs))
    /\ \E j, k \in 1..Len(slept[1]) :
           j < k /\ slept[1][j] = Ms(CeilingMs) /\ slept[1][k] = initial_delay

\* number of clean results at the end of the log
RECURSIVE TrailingClean(_)
TrailingClean(rs) ==
    IF rs = <<>> \/ ~IsClean(rs[Len(rs)].response) THEN 0
    ELSE 1 + TrailingClean(SubSeq(rs, 1, Len(rs) - 1))
\* d * (2/3)^r
RECURSIVE Shrunk(_, _)
Shrunk(d, r) == IF r = 0 THEN d ELSE Shrunk(DivideBy1p5(d), r - 1)

\* the step of run_test that logs a result moves the backoff the right way
C7_Step ==
    (variant = SINGLE /\ Len(results'[1]) = Len(results[1]) + 1)
        => LET r == results'[1][Len(results'[1])].response IN
           /\ IsTooMany(r)
                  => /\ RatLE(backoff[1], backoff'[1])
                     /\ backoff[1] = Ms(CeilingMs) => backoff'[1] = Ms(CeilingMs)
           /\ IsClean(r)
                  => /\ RatLE(backoff'[1], backoff[1])
                     /\ \/ backoff'[1] = initial_delay
                        \/ backoff'[1] = DivideBy1p5(backoff[1])
\* after r clean results in a row the backoff is initial_delay or has come
\* down to 5 s * (2/3)^r, which a positive initial_delay exceeds for some r
C7_Recovery ==
    variant = SINGLE
        => \/ backoff[1] = initial_delay
           \/ /\ RatLT(Ms(0), initial_delay)
              /\ RatLE(backoff[1], Shrunk(Ms(CeilingMs), TrailingClean(results[1])))

\* C7 (as stated): over consecutive rate-limited outcomes the delay of
\* run_test never decreases and stays at the ceiling once there; over
\* consecutive clean outcomes it never increases and comes to initial_delay
\* after finitely many of them.
C7_Monotone == [][C7_Step]_vars /\ [](C7_Recovery)

\* C7 (amended): the same, for 0 <= initial_delay <= 5 s.
C7_MonotoneBelowCeiling ==
    /\ [][RatLE(initial_delay, Ms(CeilingMs)) => C7_Step]_vars
    /\ [](RatLE(initial_delay, Ms(CeilingMs)) => C7_Recovery)

C7_Witness ==
    /\ variant = SINGLE
    /\ RatLT(initial_delay, Ms(CeilingMs))
    /\ Len(results[1]) >= 4
    /\ IsTooMany(results[1][1].response)
    /\ IsTooMany(results[1][2].response)
    /\ \E k \in 1..Len(slept[1]) : slept[1][k] = Ms(CeilingMs)
    /\ TrailingClean(results[1]) >= 2
    /\ backoff[1] = initial_delay

\* the outcomes [ok, rate-limited, ok] of the scenario, as logged so far
ScenarioResponses == <<"success", "too_many", "success">>
InScenario ==
    /\ variant = SINGLE
    /\ initial_delay = Ms(60)
    /\ requests_per_pair = 3
    /\ Len(results[1]) <= 3
    /\ \A k \in 1..Len(results[1]) :
           results[1][k].status = "200" /\ results[1][k].response = ScenarioResponses[k]

\* C8: with initial_delay = 60 ms and the outcomes [ok, rate-limited, ok],
\* the delay in force when request 1, 2, 3 is sent is 60, 60, 120 ms: the
\* rate-limited outcome of request 2 doubles the delay slept before request
\* 3, not the one before request 2 (the sleeps are 60 ms, then 120 ms).
C8_ScenarioDelays ==
    InScenario
        => /\ pc[1] = "await" => backoff[1] = <<Ms(60), Ms(60), Ms(120)>>[i[1] + 1]
           /\ slept[1] = SubSeq(<<Ms(60), Ms(120)>>, 1, Len(slept[1]))
           /\ pc[1] = "done" => slept[1] = <<Ms(60), Ms(120)>>

C8_Witness == InScenario /\ pc[1] = "done" /\ Len(results[1]) = 3

\* C9: the results of a channel are in strictly increasing order of
\* request_id at all times; in rapid_hitter the k-th gathered result is
\* that of the k-th request sent, in whatever order the requests completed.
C9_OrderedByRequestId ==
    \A c \in Channels :
        /\ \A j, k \in 1..Len(results[c]) :
               j < k => results[c][j].request_id < results[c][k].request_id
        /\ (variant = RAPID /\ pc[c] = "print")
               => /\ Len(results[c]) = Len(tasks[c])
                  /\ \A k \in 1..Len(results[c]) :
                         results[c][k].request_id = tasks[c][k].request_id

C9_Witness ==
    /\ variant = RAPID
    /\ \E c \in Channels :
           /\ pc[c] = "print"
           /\ \E j, k \in 1..Len(tasks[c]) :
                  j < k /\ tasks[c][j].finished_at > tasks[c][k].finished_at
           /\ Len(results[c]) = requests_per_pair

\* C10: a channel of the two blocking testers has at most one request in
\* flight, and request k+1 is in flight only when k+1 results are logged and
\* k+1 pacing waits were taken; only rapid_hitter has more in flight.
C10_OneInFlightWhenBlocking ==
    variant # RAPID
        => \A c \in Channels :
               /\ InFlight(c) <= 1
               /\ call[c] # <<>>
                      => LET k == call[c][1].request_id - (c - 1) * requests_per_pair IN
                         Len(results[c]) = k /\ Len(slept[c]) = k

C10_Witness ==
    /\ variant = RAPID
    /\ \E c \in Channels : InFlight(c) >= 2

\* C11 (as stated): a channel run of N >= 1 requests takes exactly N - 1
\* pacing waits before it goes on to collect and return its results: no wait
\* follows the final request.
C11_NoWaitAfterLast ==
    \A c \in Channels :
        (requests_per_pair >= 1 /\ pc[c] \in {"gather", "print", "done"})
            => Len(slept[c]) = requests_per_pair - 1

\* every result there is: those of the finished tasks, those gathered, those
\* returned
AllResults ==
    UNION { {tasks[c][k].result[1] : k \in {j \in 1..Len(tasks[c]) : tasks[c][j].result # <<>>}}
              : c \in Channels }
    \cup UNION { {results[c][k] : k \in 1..Len(results[c])} : c \in Channels }
    \cup {all_results[k] : k \in 1..Len(all_results)}
    \cup (IF ret.kind = "returned" THEN {ret.value[k] : k \in 1..Len(ret.value)} ELSE {})

\* the bodies whose error message holds 'try again in 5 seconds' in some
\* letter case
MarkedBodies == {"too_many", "shouting"}

\* C12: is_rate_limited is true exactly for the results whose decoded body
\* has an error message holding the rate-limit marker in any letter case,
\* whatever the HTTP status; it is false for a transport failure, for an
\* undecodable body and for a body with no or an empty error message.
C12_RateLimitedFlag ==
    \A r \in AllResults :
        /\ r.is_rate_limited = (r.status \in HttpStatuses /\ r.response \in MarkedBodies)
        /\ r.status = "error" => ~r.is_rate_limited

C12_Witness ==
    /\ rpc = "returned"
    /\ Len(ret.value) = 2
    /\ ret.value[1].status = "200" /\ ret.value[1].response = "shouting"
    /\ ret.value[1].is_rate_limited
    /\ ret.value[2].status = "429" /\ ret.value[2].response = "near_miss"
    /\ ~ret.value[2].is_rate_limited

\* C13 (as stated): an HTTP 200 response whose body has an application
\* error field is an application error and is not counted among the
\* successful requests: the summary counts as successful exactly the HTTP
\* 200 results whose decoded body has no error field.
C13_AppErrorNotSuccess ==
    (variant \in {RAPID, SINGLE} /\ rpc = "returned")
        => Success(ret.value) =
               Cardinality({k \in 1..Len(ret.value) :
                   /\ ret.value[k].status = "200"
                   /\ IsDict(ret.value[k].response)
                   /\ ~HasKey(ret.value[k].response, "error")})

\* the run has returned and every channel has finished
AllReturned == rpc = "returned" /\ \A c \in Channels : pc[c] = "done"

\* with N = 0 no request is ever issued and every log is empty
NothingIssued ==
    /\ \A c \in Channels : results[c] = <<>> /\ tasks[c] = <<>> /\ call[c] = <<>>
    /\ all_results = <<>>
    /\ ret.kind = "returned" => ret.value = <<>>

\* C14: for every list of pairs and every N >= 0, when every network call
\* returns or fails and every sleep ends, every channel finishes and
\* run_rate_limit_test / run_test returns (unless the run is cancelled from
\* outside); with N = 0 no request is issued, the logs are empty and the run
\* still returns.
C14_Terminates ==
    /\ <>(AllReturned \/ rpc = "cancelled")
    /\ [](requests_per_pair = 0 => NothingIssued)

C14_Witness ==
    /\ AllReturned
    /\ requests_per_pair = 0
    /\ Len(pairs) = 2
    /\ ret = Returned(<<>>)

\* the 'error_code' a logged result carries: the rate-limit code, another
\* code, or none (also none: no decoded body at all)
CarriesRateLimitCode(r) == r.response \in {"too_many", "shouting"}
CarriesNoErrorCode(r) ==
    r.response \in {"success", "near_miss", "empty_error"}

\* one result is logged by run_test
C17_Logged == variant = SINGLE /\ Len(results'[1]) = Len(results[1]) + 1

\* C17: in run_test, when a result is logged the delay changes once, before
\* the pacing wait: to min(2 * delay, 5 s) if the decoded body carries the
\* rate-limit error code, to max(initial_delay, delay / 1.5) if the decoded
\* body carries no error code, and not at all otherwise (another error code,
\* a transport failure, an undecodable body); the wait that follows sleeps
\* the new delay, and no other step changes the delay.
C17_Step ==
    IF C17_Logged
    THEN LET r == results'[1][Len(results'[1])]
             d == backoff[1] IN
         /\ backoff'[1] =
                IF r.status # "error" /\ CarriesRateLimitCode(r)
                THEN (IF RatLE(Rat(2 * d.n, d.d), Ms(5000)) THEN Rat(2 * d.n, d.d) ELSE Ms(5000))
                ELSE IF r.status # "error" /\ CarriesNoErrorCode(r)
                THEN (IF RatLE(initial_delay, Rat(2 * d.n, 3 * d.d))
                      THEN Rat(2 * d.n, 3 * d.d) ELSE initial_delay)
                ELSE d
         /\ Len(slept'[1]) > Len(slept[1])
                => slept'[1] = Append(slept[1], backoff'[1])
    ELSE backoff' = backoff

C17_BackoffTransition == [][C17_Step]_vars

\* the three cases have happened in one run: the delay was doubled, left
\* alone by an undecodable body, and divided by 1.5
C17_Witness ==
    /\ variant = SINGLE
    /\ initial_delay = Ms(60)
    /\ Len(results[1]) = 3
    /\ results[1][1].response = "too_many"
    /\ results[1][2].response = "ContentTypeError"
    /\ results[1][3].response = "success"
    /\ slept[1] = <<Ms(120), Ms(120), Ms(80)>>

\* C20: the list returned by run_rate_limit_test(pairs, N) has exactly
\* len(pairs) * N entries; the entries of the pair at position c are those
\* at positions (c - 1) * N + 1 .. c * N, in the order of pairs; and
\* request_id is strictly increasing over the whole list (the entry at
\* position k has request_id k - 1), in whatever order the channels and
\* their requests completed.
C20_MergedList ==
    (Multi /\ rpc = "returned")
        => /\ Len(ret.value) = Len(pairs) * requests_per_pair
           /\ \A c \in Channels : \A k \in 1..requests_per_pair :
                  /\ ret.value[(c - 1) * requests_per_pair + k].pair = pairs[c]
                  /\ ret.value[(c - 1) * requests_per_pair + k] = results[c][k]
           /\ \A j, k \in 1..Len(ret.value) :
                  j < k => ret.value[j].request_id < ret.value[k].request_id
           /\ \A k \in 1..Len(ret.value) : ret.value[k].request_id = k - 1

\* a ccxt run of two pairs has returned, the two channels with different
\* outcomes
C20_Witness ==
    /\ variant = CCXT
    /\ rpc = "returned"
    /\ Len(pairs) = 2
    /\ requests_per_pair = 2
    /\ Len(ret.value) = 4
    /\ ret.value[1].status = "network_error"
    /\ ret.value[3].status = "200"

\* what belongs to channel c alone
Own(c) == <<results[c], tasks[c], call[c], i[c], pc[c], slept[c], backoff[c],
            consecutive_errors[c]>>

\* the log of channel b holds b's own requests only: pair b and the ids of
\* b's range, in order
OwnLog(b) ==
    \A k \in 1..Len(results[b]) :
        /\ results[b][k].pair = pairs[b]
        /\ results[b][k].request_id = (b - 1) * requests_per_pair + k - 1

C15_Frame ==
    (Multi /\ rpc = "running" /\ rpc' = "running")
        => \A a, b \in Channels :
               (a # b /\ Own(a)' # Own(a)) => Own(b)' = Own(b)

\* in ccxt_rapid_hitter a channel's next step never waits for another
\* channel: its call can return with any outcome, its sleep can end
C15_AbleInCcxt ==
    (variant = CCXT /\ rpc = "running")
        => \A b \in Channels :
               /\ pc[b] = "await" => \A o \in CcxtOutcomes : ENABLED CX_result(b, o)
               /\ pc[b] = "sleep" => ENABLED CX_next(b)

\* in rapid_hitter a channel starts only when the channels before it have
\* returned
C15_WaitsInRapid ==
    (variant = RAPID /\ rpc = "running")
        => \A b \in Channels :
               (ENABLED RH_run_pair_requests(b))
                   <=> (pc[b] = "idle" /\ \A a \in 1..(b - 1) : pc[a] = "done")

C16_SignsWhatIsSent ==
    /\ \A k \in 1..Len(sent) :
           /\ sent[k].headers.Sign = HmacSha512(SecretKey, Urlencode(sent[k].data))
           /\ sent[k].headers.Key = ApiKey
    /\ \A j, k \in 1..Len(sent) :
           sent[j].data = sent[k].data => sent[j].headers.Sign = sent[k].headers.Sign

\* two requests of single_pair_test built in the same millisecond have the
\* same parameters, signed as the text below
C16_Witness ==
    /\ variant = SINGLE
    /\ Len(sent) = 2
    /\ sent[1].data = sent[2].data
    /\ sent[1].request_id # sent[2].request_id
    /\ sent[2].headers.Sign.msg =
           "method=trade&timestamp=0&recvWindow=5000&pair=btc_idr&type=buy&price=100000&order_type=limit&btc=0.00001"

\* C18 (as stated): for every pair, every request built holds the minimal
\* quantity under the key named by the pair's base currency, the first
\* component of the pair split on '_'; no request is without a quantity.
C18_QuantityUnderBase ==
    \A k \in 1..Len(sent) :
        /\ HasItem(sent[k].data, BaseCurrency(sent[k].pair))
        /\ GetItem(sent[k].data, BaseCurrency(sent[k].pair)) = Quantity

\* the 'timestamp' of the k-th request built
Stamp(k) == GetItem(sent[k].data, "timestamp")

\* the timestamp of a request is the clock's millisecond at the step that
\* builds it
C19_SampledAtBuild ==
    Len(sent') = Len(sent) + 1
        => GetItem(sent'[Len(sent')].data, "timestamp") = now' \div TicksPerMs

\* C19 (as stated): any two requests built during one run carry different
\* timestamp values, for every non-negative pacing delay and every network
\* latency, zero included.
C19_NeverReused ==
    \A j, k \in 1..Len(sent) : j # k => Stamp(j) # Stamp(k)

\* C19 (amended): the timestamp is sampled when the request is built, and
\* the requests of a run carry different, increasing timestamps when the
\* pacing wait is at least 1 ms: always in rapid_hitter (60 ms), in run_test
\* when initial_delay >= 1 ms.
C19_FreshWhenPaced ==
    /\ [][C19_SampledAtBuild]_vars
    /\ []((variant = RAPID \/ RatLE(Ms(1), initial_delay))
             => \A j, k \in 1..Len(sent) : j < k => Stamp(j) < Stamp(k))

\* run_test with initial_delay = 1 ms, a call that took no time: the two
\* timestamps are one millisecond apart
C19_Witness ==
    /\ variant = SINGLE
    /\ initial_delay = Ms(1)
    /\ Len(sent) = 2
    /\ Stamp(2) = Stamp(1) + 1

====
